---- MODULE Spec2Model ----
(***************************************************************************)
(* Model of the Profile screen (src/src/pages/Profile/index.tsx):          *)
(* the handleProfile submission workflow (Yup validation, payload          *)
(* construction, PUT /profile) and the avatar workflow (image picker       *)
(* callback, PATCH users/avatar, modal toggle).                            *)
(*                                                                         *)
(* JavaScript handlers run to completion: one action is one handler run up *)
(* to its next suspension point on an external operation (the network      *)
(* call, the image picker).  Strings are sequences of characters.          *)
(***************************************************************************)
EXTENDS Integers, Sequences, FiniteSets, TLC

VARIABLES
    form,                   \* current values of the five inputs of the Form
    formErrors,             \* field -> message, as set by formRef.setErrors
    puts,                   \* PUT /profile calls awaiting their response
    sessionUser,            \* the user record held by the auth context
    showModalUpdateAvatar,  \* useState(false)
    picker,                 \* the open image picker and the closure it holds
    patches,                \* PATCH users/avatar calls awaiting their response
    handler,                \* the handler that ran last
    response,               \* the response body that handler received
    effects,                \* the calls that handler made, in order
    shownBefore             \* showModalUpdateAvatar before that handler ran

vars == <<form, formErrors, puts, sessionUser, showModalUpdateAvatar,
          picker, patches, handler, response, effects, shownBefore>>

----------------------------------------------------------------------------
(* Bounds *)

MaxEmailLen == 5
MaxInFlight == 2
MaxUploads == 1
NumUsers == 1

----------------------------------------------------------------------------
(* Strings *)

Chars == {"a", "@", "."}

Strings(n) == UNION {[1..k -> Chars] : k \in 0..n}

Fields == {"name", "email", "old_password", "password", "password_confirmation"}

Names == {<<>>, <<"a">>}

Passwords == {<<>>, <<"a">>, <<"a", "a">>}

GoodEmail == <<"a", "@", "a", ".", "a">>

ProfileFormData(emails, passwords) ==
    [name : Names, email : emails, old_password : passwords,
     password : passwords, password_confirmation : passwords]

\* the values typed on the screen in the workflow specification: the
\* password fields are edited, name and e-mail keep their initial values
FieldSamples(f) ==
    IF f = "name" THEN {<<"a">>}
    ELSE IF f = "email" THEN {GoodEmail}
    ELSE {<<>>, <<"a">>}

----------------------------------------------------------------------------
(* Yup tests *)

\* Yup.string().required(): the empty string fails
required(v) == Len(v) > 0

Contains(s, sub) ==
    \E i \in 1..Len(s) : i + Len(sub) - 1 <= Len(s)
                         /\ SubSeq(s, i, i + Len(sub) - 1) = sub

\* local part of Yup's e-mail pattern: atoms separated by single dots
IsLocalPart(s) ==
    /\ Len(s) > 0
    /\ \A i \in 1..Len(s) : s[i] # "@"
    /\ s[1] # "." /\ s[Len(s)] # "."
    /\ ~Contains(s, <<".", ".">>)

\* domain of Yup's e-mail pattern: (label ".")+ tld, labels and tld start and
\* end with an alphanumeric
IsDomain(s) ==
    /\ Len(s) > 0
    /\ \A i \in 1..Len(s) : s[i] # "@"
    /\ s[1] = "a" /\ s[Len(s)] = "a"
    /\ Contains(s, <<"a", ".", "a">>)

IsEmailShape(v) ==
    \E i \in 1..Len(v) :
        /\ v[i] = "@"
        /\ IsLocalPart(SubSeq(v, 1, i - 1))
        /\ IsDomain(SubSeq(v, i + 1, Len(v)))

\* Yup.string().email(): matches() with excludeEmptyString
email(v) == v = <<>> \/ IsEmailShape(v)

\* the condition inverted: is: val => !val.length
isOldPassword_inverted(val) == Len(val) = 0

\* is: val => !!val.length
isOldPassword(val) == Len(val) # 0

Err(path, message) == <<[path |-> path, message |-> message]>>

nameErrors(data) ==
    IF required(data.name) THEN <<>> ELSE Err("name", "Nome obrigatorio")

emailErrors(data) ==
    (IF required(data.email) THEN <<>> ELSE Err("email", "E-mail obrigatorio"))
    \o (IF email(data.email) THEN <<>> ELSE Err("email", "Digite um e-mail valido"))

old_passwordErrors(data) == <<>>

passwordErrors(data) ==
    IF isOldPassword(data.old_password)
    THEN IF required(data.password) THEN <<>>
         ELSE Err("password", "Campo obrigatorio")
    ELSE <<>>

\* the oneOf whitelist is checked first, and the tests added by the
\* resolved `when` branch run only when it passes
password_confirmationErrors(data) ==
    IF data.password_confirmation \notin {data.password}
    THEN Err("password_confirmation", "Confirmacao incorreta")
    ELSE IF isOldPassword(data.old_password)
         THEN IF required(data.password_confirmation) THEN <<>>
              ELSE Err("password_confirmation", "Campo obrigatorio")
         ELSE <<>>

\* validation that stops at the first failing test
validate_abortEarly(data) ==
    LET inner == nameErrors(data) \o emailErrors(data)
                 \o old_passwordErrors(data) \o passwordErrors(data)
                 \o password_confirmationErrors(data)
    IN  IF inner = <<>> THEN <<>> ELSE <<inner[1]>>

\* schema.validate(data, {abortEarly: false}): ValidationError.inner
validate(data) ==
    nameErrors(data) \o emailErrors(data) \o old_passwordErrors(data)
    \o passwordErrors(data) \o password_confirmationErrors(data)

ErrorPaths(inner) == {inner[i].path : i \in 1..Len(inner)}

\* utils/getValidationErrors: field name -> first failing message
getValidationErrors(inner) ==
    [f \in ErrorPaths(inner) |->
        inner[CHOOSE i \in 1..Len(inner) :
                 /\ inner[i].path = f
                 /\ \A j \in 1..(i - 1) : inner[j].path # f].message]

----------------------------------------------------------------------------
(* Payload *)

\* old_password ? {...} : {}
Truthy(s) == s # <<>>

\* a payload that always carries the password keys
formDataKeys_always(data) ==
    {"name", "email", "old_password", "password", "password_confirmation"}

formDataKeys(data) ==
    {"name", "email"}
    \cup (IF Truthy(data.old_password)
          THEN {"old_password", "password", "password_confirmation"}
          ELSE {})

formData(data) == [k \in formDataKeys(data) |-> data[k]]

----------------------------------------------------------------------------
(* State *)

\* the user records PUT /profile and PATCH users/avatar may answer with
Users == 1..NumUsers

NoErrors == [f \in {} |-> ""]

NoResponse == 0 - 1

NoPicker == [source |-> "none", show |-> FALSE]

Remove(s, i) == SubSeq(s, 1, i - 1) \o SubSeq(s, i + 1, Len(s))

\* hooks/auth updateUser: the session user is replaced by the record given
updateUser(user, data) == data

\* setShowModalUpdateAvatar(!showModalUpdateAvatar), with the value of
\* showModalUpdateAvatar the callback closed over
\* a toggle that reads the current state instead of the closed-over value
toggleModal_current(show) == ~showModalUpdateAvatar

toggleModal(show) == ~show

\* Form initialData={user}: name and e-mail filled in, passwords empty
InitialData ==
    [name |-> <<"a">>, email |-> GoodEmail, old_password |-> <<>>,
     password |-> <<>>, password_confirmation |-> <<>>]

InitRest ==
    /\ formErrors = NoErrors
    /\ puts = <<>>
    /\ sessionUser = 0
    /\ showModalUpdateAvatar = FALSE
    /\ picker = NoPicker
    /\ patches = <<>>
    /\ handler = "render"
    /\ response = NoResponse
    /\ effects = <<>>
    /\ shownBefore = FALSE

Init == form = InitialData /\ InitRest

----------------------------------------------------------------------------
(* Profile form *)

\* the user types into one Input
changeText(f, v) ==
    /\ picker = NoPicker
    /\ form[f] # v
    /\ form' = [form EXCEPT ![f] = v]
    /\ handler' = "changeText"
    /\ shownBefore' = showModalUpdateAvatar
    /\ response' = NoResponse
    /\ effects' = <<>>
    /\ UNCHANGED <<formErrors, puts, sessionUser, showModalUpdateAvatar,
                   picker, patches>>

\* calls of handleProfile up to the await of api.put
submitEffects == <<"setErrors", "validate", "formData", "api.put">>

\* a catch block without the return after setErrors
validationErrorEffects_fallThrough ==
    <<"setErrors", "validate", "getValidationErrors", "setErrors",
      "Alert.error">>

\* calls of handleProfile when schema.validate rejects
validationErrorEffects ==
    <<"setErrors", "validate", "getValidationErrors", "setErrors">>

\* navigation before the session user is replaced
successEffects_goBackFirst == <<"goBack", "updateUser", "Alert.success">>

\* calls of handleProfile after api.put resolved
successEffects == <<"updateUser", "Alert.success", "goBack">>

\* a catch block that swallows the error
failureEffects_silent == <<>>

\* calls of handleProfile when api.put rejects
failureEffects == <<"Alert.error">>

\* a submit button disabled while a call is in flight
canSubmit_guarded == puts = <<>>

\* the submit button and the keyboard's send key are always active
canSubmit == TRUE

\* formRef.current.submitForm() -> handleProfile(data)
handleProfile ==
    /\ picker = NoPicker
    /\ canSubmit
    /\ LET data == form
           inner == validate(data)
       IN  IF inner = <<>>
           THEN /\ Len(puts) < MaxInFlight
                /\ formErrors' = NoErrors
                /\ puts' = Append(puts, [data |-> data,
                                         formData |-> formData(data)])
                /\ effects' = submitEffects
           ELSE /\ formErrors' = getValidationErrors(inner)
                /\ puts' = puts
                /\ effects' = validationErrorEffects
    /\ handler' = "handleProfile"
    /\ shownBefore' = showModalUpdateAvatar
    /\ response' = NoResponse
    /\ UNCHANGED <<form, sessionUser, showModalUpdateAvatar, picker, patches>>

\* api.put('/profile', formData) resolves with response.data
putResolved(i, data) ==
    /\ i \in 1..Len(puts)
    /\ puts' = Remove(puts, i)
    /\ sessionUser' = updateUser(sessionUser, data)
    /\ handler' = "putResolved"
    /\ shownBefore' = showModalUpdateAvatar
    /\ response' = data
    /\ effects' = successEffects
    /\ UNCHANGED <<form, formErrors, showModalUpdateAvatar, picker, patches>>

\* api.put rejects: the catch block, err is not a Yup.ValidationError
putRejected(i) ==
    /\ i \in 1..Len(puts)
    /\ puts' = Remove(puts, i)
    /\ handler' = "putRejected"
    /\ shownBefore' = showModalUpdateAvatar
    /\ response' = NoResponse
    /\ effects' = failureEffects
    /\ UNCHANGED <<form, formErrors, sessionUser, showModalUpdateAvatar,
                   picker, patches>>

handleGoBack ==
    /\ picker = NoPicker
    /\ handler' = "handleGoBack"
    /\ shownBefore' = showModalUpdateAvatar
    /\ response' = NoResponse
    /\ effects' = <<"goBack">>
    /\ UNCHANGED <<form, formErrors, puts, sessionUser,
                   showModalUpdateAvatar, picker, patches>>

----------------------------------------------------------------------------
(* Avatar *)

\* callback argument of launchCamera / launchImageLibrary
Responses ==
    {[didCancel |-> TRUE, uri |-> "undefined"],
     [didCancel |-> FALSE, uri |-> "file"]}

\* UserAvatarButton onPress={toggleModal}
pressUserAvatarButton ==
    /\ picker = NoPicker
    /\ showModalUpdateAvatar' = toggleModal(showModalUpdateAvatar)
    /\ handler' = "pressUserAvatarButton"
    /\ shownBefore' = showModalUpdateAvatar
    /\ response' = NoResponse
    /\ effects' = <<"toggleModal">>
    /\ UNCHANGED <<form, formErrors, puts, sessionUser, picker, patches>>

\* ButtonRN title="Cancelar" onPress={toggleModal}, rendered in the Modal
pressCancel ==
    /\ picker = NoPicker
    /\ showModalUpdateAvatar
    /\ showModalUpdateAvatar' = toggleModal(showModalUpdateAvatar)
    /\ handler' = "pressCancel"
    /\ shownBefore' = showModalUpdateAvatar
    /\ response' = NoResponse
    /\ effects' = <<"toggleModal">>
    /\ UNCHANGED <<form, formErrors, puts, sessionUser, picker, patches>>

launch(source) ==
    /\ picker = NoPicker
    /\ showModalUpdateAvatar
    /\ Len(patches) < MaxUploads
    /\ picker' = [source |-> source, show |-> showModalUpdateAvatar]
    /\ handler' = source
    /\ shownBefore' = showModalUpdateAvatar
    /\ response' = NoResponse
    /\ effects' = <<source>>
    /\ UNCHANGED <<form, formErrors, puts, sessionUser,
                   showModalUpdateAvatar, patches>>

updatePhotoFromCamera == launch("launchCamera")

updatePhotoFromGallery == launch("launchImageLibrary")

\* data.append('avatar', {...})
avatarData(res) ==
    [type |-> "image/jpeg", name |-> "id.jpg", uri |-> res.uri]

\* async response => {...} up to the await of api.patch; response.didCancel
\* is not looked at
pickerCallback(res) ==
    /\ picker # NoPicker
    /\ picker' = NoPicker
    /\ patches' = Append(patches, [avatar |-> avatarData(res),
                                   show |-> picker.show])
    /\ effects' = <<"append", "api.patch">>
    /\ handler' = IF res.didCancel THEN "callback:didCancel"
                  ELSE "callback:uri"
    /\ shownBefore' = showModalUpdateAvatar
    /\ response' = NoResponse
    /\ UNCHANGED <<form, formErrors, puts, sessionUser,
                   showModalUpdateAvatar>>

\* calls of the picker callback after api.patch resolved
uploadedEffects == <<"updateUser", "toggleModal">>

\* an upload wrapped in the try/catch of handleProfile
uploadFailedEffects_caught == <<"Alert.error">>

\* calls of the picker callback when api.patch rejects: nothing catches it
uploadFailedEffects == <<>>

patchResolved(i, data) ==
    /\ i \in 1..Len(patches)
    /\ patches' = Remove(patches, i)
    /\ sessionUser' = updateUser(sessionUser, data)
    /\ showModalUpdateAvatar' = toggleModal(patches[i].show)
    /\ handler' = "patchResolved"
    /\ shownBefore' = showModalUpdateAvatar
    /\ response' = data
    /\ effects' = uploadedEffects
    /\ UNCHANGED <<form, formErrors, puts, picker>>

patchRejected(i) ==
    /\ i \in 1..Len(patches)
    /\ patches' = Remove(patches, i)
    /\ handler' = "patchRejected"
    /\ shownBefore' = showModalUpdateAvatar
    /\ response' = NoResponse
    /\ effects' = uploadFailedEffects
    /\ UNCHANGED <<form, formErrors, puts, sessionUser,
                   showModalUpdateAvatar, picker>>

----------------------------------------------------------------------------

Next ==
    \/ \E f \in Fields : \E v \in FieldSamples(f) : changeText(f, v)
    \/ handleProfile
    \/ \E i \in 1..MaxInFlight : \E data \in Users : putResolved(i, data)
    \/ \E i \in 1..MaxInFlight : putRejected(i)
    \/ handleGoBack
    \/ pressUserAvatarButton
    \/ pressCancel
    \/ updatePhotoFromCamera
    \/ updatePhotoFromGallery
    \/ \E res \in Responses : pickerCallback(res)
    \/ \E i \in 1..MaxUploads : \E data \in Users : patchResolved(i, data)
    \/ \E i \in 1..MaxUploads : patchRejected(i)

Spec == Init /\ [][Next]_vars

\* validation and payload construction over every input
InitValidation ==
    /\ form \in ProfileFormData(Strings(MaxEmailLen), Passwords)
    /\ InitRest

NextValidation == handleProfile

SpecValidation == InitValidation /\ [][NextValidation]_vars

----------------------------------------------------------------------------
(* Properties *)

Count(s, x) == Cardinality({i \in 1..Len(s) : s[i] = x})

Has(s, x) == Count(s, x) > 0

\* every x in s comes before every y in s
Before(s, x, y) ==
    \A i, j \in 1..Len(s) : (s[i] = x /\ s[j] = y) => i < j

\* the fields of an input that violate their rule
ViolatedFields(d) ==
    {f \in Fields :
        \/ f = "name" /\ d.name = <<>>
        \/ f = "email" /\ (d.email = <<>> \/ ~IsEmailShape(d.email))
        \/ f = "password" /\ d.old_password # <<>> /\ d.password = <<>>
        \/ f = "password_confirmation"
           /\ \/ d.old_password # <<>> /\ d.password_confirmation = <<>>
              \/ d.password_confirmation # d.password}

\* C1: validation reports an error on exactly the fields that violate their
\* rule (all fields evaluated), and a submission goes on to PUT /profile
\* exactly when no field does.
C1_ValidationReportsViolatedFields ==
    /\ ErrorPaths(validate(form)) = ViolatedFields(form)
    /\ handler = "handleProfile" => (puts # <<>> <=> ViolatedFields(form) = {})

C1_Witness ==
    /\ handler = "handleProfile"
    /\ form.old_password = <<>>
    /\ form.password = <<>>
    /\ form.password_confirmation # <<>>
    /\ ErrorPaths(validate(form)) = {"name", "email", "password_confirmation"}
    /\ puts = <<>>

\* C2: the payload of every PUT /profile call carries name and email of the
\* submitted input, and carries the three password keys, with the input's
\* values, exactly when old_password is non-empty.
C2_PayloadKeys ==
    \A i \in 1..Len(puts) :
        LET d == puts[i].data
            p == puts[i].formData
        IN  /\ d = form
            /\ {"name", "email"} \subseteq DOMAIN p
            /\ p["name"] = d.name /\ p["email"] = d.email
            /\ d.old_password # <<>> =>
                   /\ DOMAIN p = Fields
                   /\ \A k \in Fields : p[k] = d[k]
            /\ d.old_password = <<>> => DOMAIN p = {"name", "email"}

C2_Witness ==
    /\ Len(puts) = 1
    /\ puts[1].data.old_password # <<>>
    /\ "password" \in DOMAIN puts[1].formData

\* C3: a submission with a failing field issues no PUT /profile call, leaves
\* the session user alone, raises no alert and does not navigate back; the
\* failing fields get their messages and nothing is left in flight for it.
C3_InvalidSubmissionStaysLocal ==
    [][(handler' = "handleProfile" /\ ViolatedFields(form) # {}) =>
          /\ puts' = puts
          /\ ~Has(effects', "api.put")
          /\ sessionUser' = sessionUser
          /\ ~Has(effects', "updateUser")
          /\ ~Has(effects', "Alert.success")
          /\ ~Has(effects', "Alert.error")
          /\ ~Has(effects', "goBack")
          /\ DOMAIN formErrors' = ViolatedFields(form)
          /\ \A f \in DOMAIN formErrors' : formErrors'[f] # ""]_vars

C3_Witness ==
    /\ handler = "handleProfile"
    /\ DOMAIN formErrors = {"password", "password_confirmation"}
    /\ effects = validationErrorEffects
    /\ Len(puts) = 1

\* C4: a submission validates, then builds the payload, then calls PUT
\* /profile; a successful response replaces the session user by the response
\* body, then notifies, then navigates back once, and the call is over.
C4_SubmissionOrder ==
    [][/\ (handler' = "handleProfile" /\ Len(puts') = Len(puts) + 1) =>
             /\ Count(effects', "validate") = 1
             /\ Count(effects', "formData") = 1
             /\ Count(effects', "api.put") = 1
             /\ Before(effects', "validate", "formData")
             /\ Before(effects', "formData", "api.put")
       /\ handler' = "putResolved" =>
             /\ sessionUser' = response'
             /\ Count(effects', "updateUser") = 1
             /\ Count(effects', "Alert.success") = 1
             /\ Count(effects', "goBack") = 1
             /\ Before(effects', "updateUser", "Alert.success")
             /\ Before(effects', "Alert.success", "goBack")
             /\ Len(puts') = Len(puts) - 1]_vars

C4_Witness ==
    /\ handler = "putResolved"
    /\ sessionUser = response
    /\ sessionUser # 0
    /\ puts = <<>>

\* C5: a rejected PUT /profile call raises one generic alert, leaves the
\* session user, the form values and the field errors alone, neither
\* notifies success nor navigates back, and a new submission is possible.
C5_RejectedPut ==
    /\ [][handler' = "putRejected" =>
             /\ Count(effects', "Alert.error") = 1
             /\ sessionUser' = sessionUser
             /\ ~Has(effects', "updateUser")
             /\ form' = form
             /\ formErrors' = formErrors
             /\ ~Has(effects', "Alert.success")
             /\ ~Has(effects', "goBack")
             /\ Len(puts') = Len(puts) - 1]_vars
    /\ []((handler = "putRejected" /\ picker = NoPicker) =>
             ENABLED handleProfile)

C5_Witness ==
    /\ handler = "putRejected"
    /\ effects = <<"Alert.error">>
    /\ form.old_password # <<>>
    /\ sessionUser = 0

\* C6: when the user cancels the capture or selection, no PATCH users/avatar
\* call is issued.
C6_CancelIssuesNoUpload ==
    handler = "callback:didCancel" =>
        /\ ~Has(effects, "api.patch")
        /\ patches = <<>>

\* C7: launching the camera or the gallery leaves the modal as it is; a
\* successful upload replaces the session user by the returned data, then
\* toggles the modal, and the modal is hidden afterwards whatever was tapped
\* while the upload was in flight.
C7_ModalDismissedAfterUpload ==
    /\ [][handler' \in {"launchCamera", "launchImageLibrary"} =>
             showModalUpdateAvatar' = showModalUpdateAvatar]_vars
    /\ [](handler = "patchResolved" =>
             /\ ~showModalUpdateAvatar
             /\ sessionUser = response
             /\ Before(effects, "updateUser", "toggleModal")
             /\ Count(effects, "updateUser") = 1
             /\ Count(effects, "toggleModal") = 1)

C7_Witness ==
    /\ handler = "patchResolved"
    /\ ~shownBefore
    /\ ~showModalUpdateAvatar
    /\ sessionUser = response
    /\ sessionUser # 0

\* C8: a failed upload raises no alert, leaves the session user alone and
\* leaves the modal as visible as it was.
C8_UploadFailureUnhandled ==
    [][handler' = "patchRejected" =>
          /\ effects' = <<>>
          /\ sessionUser' = sessionUser
          /\ showModalUpdateAvatar' = showModalUpdateAvatar]_vars

C8_Witness ==
    /\ handler = "patchRejected"
    /\ showModalUpdateAvatar
    /\ shownBefore

\* a submission of a valid form that issues its PUT /profile call
SubmitAndPut == handleProfile /\ Len(puts') = Len(puts) + 1

\* C9: with a PUT /profile call in flight a further submission of a valid
\* form is accepted and issues its own call, and a call that succeeds while
\* another is in flight replaces the session user, notifies and navigates.
C9_NoReentrancyGuard ==
    /\ []((/\ Len(puts) \in 1..(MaxInFlight - 1)
           /\ picker = NoPicker
           /\ ViolatedFields(form) = {}) => ENABLED SubmitAndPut)
    /\ [][(handler' = "putResolved" /\ Len(puts) >= 2) =>
             /\ effects' = <<"updateUser", "Alert.success", "goBack">>
             /\ sessionUser' = response'
             /\ Len(puts') = Len(puts) - 1]_vars

C9_Witness ==
    /\ handler = "handleProfile"
    /\ Len(puts) = 2

\* C10: every PUT /profile call in flight carries an input that passed
\* validation, and a payload with the password keys has a non-empty
\* old_password and password and a confirmation equal to the password.
C10_NoUnconfirmedPasswordChange ==
    \A i \in 1..Len(puts) :
        LET p == puts[i].formData
        IN  /\ ViolatedFields(puts[i].data) = {}
            /\ \A k \in DOMAIN p : p[k] = puts[i].data[k]
            /\ (DOMAIN p \cap {"old_password", "password",
                                "password_confirmation"} # {}) =>
                   /\ DOMAIN p = Fields
                   /\ p["old_password"] # <<>>
                   /\ p["password"] # <<>>
                   /\ p["password_confirmation"] = p["password"]

C10_Witness ==
    /\ Len(puts) = 2
    /\ DOMAIN puts[1].formData = Fields
    /\ DOMAIN puts[2].formData = {"name", "email"}

====
